---- MODULE Spec2Model ----
(***************************************************************************)
(* Model of the Genelec Smart IP integration: the per-entry cache          *)
(* (GenelecSmartIPData), the request lock of GenelecSmartIPDevice._request,*)
(* the poll cycle async_update_data, the entity and service actions that   *)
(* patch the coordinator payload, and the entry lifecycle (setup, unload,  *)
(* reload).                                                                *)
(*                                                                         *)
(* Python dictionaries are modelled as follows.                            *)
(*   - volume, inputs, events, device_info, device_id, network_ipv4,       *)
(*     aoip_ipv4, aoip_identity, zone_info: a natural number; 0 is the     *)
(*     empty dict {} and a positive number is the (non-empty) JSON the     *)
(*     device returned, stamped with the time of the response so that two  *)
(*     responses to different requests are distinguishable.                *)
(*   - power: [state, other]; state is "ABSENT" when the key is missing,   *)
(*     other stands for the remaining keys of the dict (0: none).          *)
(*   - led: [ledIntensity, rj45Leds, hideClip]; -1 / "absent" when the key *)
(*     is missing.                                                         *)
(*   - profile_list: [list, selected, startup]; list is the set of profile *)
(*     ids of the "list" entries, -1 when selected / startup is missing.   *)
(***************************************************************************)
EXTENDS Integers, Sequences, FiniteSets, TLC

\* ---------------------------------------------------------------- bounds
\* sessions created per run (setups of the entry)
MaxLoads == 3
\* poll cycles per loaded entry
MaxTick == 3
\* events of the environment per run: a response to setup or to the poll
\* cycle other than a plain 200 with a body, an entity action or service call
\* (whatever its response), a state change of the device
MaxEvents == 1

\* ------------------------------------------------------------- constants
NoOne == "none"

Procs == {"setup", "poll", "actor"}

\* const.py POWER_STATE_*
POWER_STATE_ACTIVE == "ACTIVE"
POWER_STATE_STANDBY == "STANDBY"
POWER_STATE_BOOT == "BOOT"
POWER_STATE_AOIPBOOT == "AOIPBOOT"
POWER_STATE_ISS_SLEEP == "ISS_SLEEP"
POWER_STATE_PWR_FAIL == "PWR_FAIL"

\* a state string the table of select.py does not know
POWER_STATE_OTHER == "SHUTDOWN"

\* the states the device enters by itself; the others are commanded
DeviceOwnStates ==
  {POWER_STATE_ACTIVE, POWER_STATE_ISS_SLEEP, POWER_STATE_PWR_FAIL, POWER_STATE_OTHER}

\* a faulty variant of the table below: the options of BOOT and AOIPBOOT swapped
POWER_STATE_API_TO_OPTION_Swapped ==
  {<<POWER_STATE_ACTIVE, "active">>, <<POWER_STATE_STANDBY, "standby">>,
   <<POWER_STATE_BOOT, "aoipboot">>, <<POWER_STATE_AOIPBOOT, "boot">>,
   <<POWER_STATE_ISS_SLEEP, "iss_sleep">>, <<POWER_STATE_PWR_FAIL, "pwr_fail">>}

\* select.py POWER_STATE_API_TO_OPTION, as a set of <<api, option>> pairs
POWER_STATE_API_TO_OPTION ==
  {<<POWER_STATE_ACTIVE, "active">>, <<POWER_STATE_STANDBY, "standby">>,
   <<POWER_STATE_BOOT, "boot">>, <<POWER_STATE_AOIPBOOT, "aoipboot">>,
   <<POWER_STATE_ISS_SLEEP, "iss_sleep">>, <<POWER_STATE_PWR_FAIL, "pwr_fail">>}

\* select.py POWER_STATE_OPTION_TO_API: the inverse table
POWER_STATE_OPTION_TO_API == {<<p[2], p[1]>> : p \in POWER_STATE_API_TO_OPTION}

\* a faulty variant of SETTABLE_POWER_STATES: ISS_SLEEP can be commanded
SETTABLE_POWER_STATES_WithSleep ==
  {POWER_STATE_ACTIVE, POWER_STATE_STANDBY, POWER_STATE_BOOT, POWER_STATE_AOIPBOOT,
   POWER_STATE_ISS_SLEEP}

SETTABLE_POWER_STATES ==
  {POWER_STATE_ACTIVE, POWER_STATE_STANDBY, POWER_STATE_BOOT, POWER_STATE_AOIPBOOT}

SeqToSet(q) == {q[i] : i \in 1..Len(q)}

\* dict.get(key) on a table of pairs; "None" when the key is missing
TableGet(table, key) ==
  IF \E p \in table : p[1] = key
    THEN (CHOOSE p \in table : p[1] = key)[2]
    ELSE "None"

\* ------------------------------------------------------------ dictionaries
EmptyPower == [state |-> "ABSENT", other |-> 0]
EmptyLed == [ledIntensity |-> -1, rj45Leds |-> "absent", hideClip |-> "absent"]
EmptyProfile == [list |-> {}, selected |-> -1, startup |-> -1]

\* a faulty variant of the order below: power and inputs swapped
EndpointOrderSwapped ==
  <<"volume", "inputs", "power", "events", "device_info", "device_id", "led",
    "network_ipv4", "aoip_ipv4", "aoip_identity", "zone_info", "profile_list">>

\* the payload keys, in the order async_update_data requests them
EndpointOrder ==
  <<"volume", "power", "inputs", "events", "device_info", "device_id", "led",
    "network_ipv4", "aoip_ipv4", "aoip_identity", "zone_info", "profile_list">>

Keys == {EndpointOrder[i] : i \in 1..Len(EndpointOrder)}

CoreKeys == {"volume", "power", "inputs", "events"}
OptionalKeys == {"network_ipv4", "aoip_ipv4", "aoip_identity", "zone_info", "profile_list"}
OnceKeys == {"device_info", "device_id"} \cup OptionalKeys

\* the empty dict of each key
EmptyPayload ==
  [volume |-> 0, power |-> EmptyPower, inputs |-> 0, events |-> 0,
   device_info |-> 0, device_id |-> 0, led |-> EmptyLed,
   network_ipv4 |-> 0, aoip_ipv4 |-> 0, aoip_identity |-> 0,
   zone_info |-> 0, profile_list |-> EmptyProfile]

\* Python truthiness of a cached dict: "not d"
IsEmpty(k, v) == v = EmptyPayload[k]

\* GenelecSmartIPData.__init__
NewData ==
  [volume_data |-> 0, power_data |-> EmptyPower, inputs_data |-> 0,
   events_data |-> 0, device_info |-> 0, device_id |-> 0,
   led_data |-> EmptyLed, led_initialized |-> FALSE,
   network_config |-> 0, aoip_ipv4 |-> 0, aoip_identity |-> 0,
   zone_info |-> 0, profile_list |-> EmptyProfile, poll_tick |-> 0]

\* the attribute of GenelecSmartIPData behind each payload key
CacheField ==
  [volume |-> "volume_data", power |-> "power_data", inputs |-> "inputs_data",
   events |-> "events_data", device_info |-> "device_info",
   device_id |-> "device_id", led |-> "led_data",
   network_ipv4 |-> "network_config", aoip_ipv4 |-> "aoip_ipv4",
   aoip_identity |-> "aoip_identity", zone_info |-> "zone_info",
   profile_list |-> "profile_list"]

\* the "last known data" payload of the two except branches
CachedPayload(d) ==
  [volume |-> d.volume_data, power |-> d.power_data, inputs |-> d.inputs_data,
   events |-> d.events_data, device_info |-> d.device_info,
   device_id |-> d.device_id, led |-> d.led_data,
   network_ipv4 |-> d.network_config, aoip_ipv4 |-> d.aoip_ipv4,
   aoip_identity |-> d.aoip_identity, zone_info |-> d.zone_info,
   profile_list |-> d.profile_list]

\* a faulty variant of SuccessPayload: the power read in the cycle is left out
SuccessPayloadNoPower(d, loc) ==
  [CachedPayload(d) EXCEPT !.volume = loc.volume, !.power = EmptyPower,
                           !.inputs = loc.inputs, !.events = loc.events]

\* the payload of the normal return: the four locals and the cache
SuccessPayload(d, loc) ==
  [CachedPayload(d) EXCEPT !.volume = loc.volume, !.power = loc.power,
                           !.inputs = loc.inputs, !.events = loc.events]


\* ------------------------------------------------------------------ state
VARIABLES
  data,        \* the entry's GenelecSmartIPData (the shared cache)
  coord,       \* the DataUpdateCoordinator: has = data is not None, data = payload
  lock,        \* data.lock, shared with the device: holder and FIFO waiters
  phase,       \* per task: "none", "wait" (on the lock) or "flight" (request sent)
  setupPc,     \* position of async_setup_entry
  poll,        \* the running async_update_data: current key and its four locals
  actor,       \* the running entity action or service handler
  dev,         \* the device: power state, LED settings, profile selection
  ent,         \* the entities: power select, profile select, the two LED switches
  budget,      \* the number of environment events so far
  cyc,         \* history of the current / last poll cycle
  ret,         \* history: the payload returned by the last finished poll cycle
  act,         \* history: the last finished action
  life         \* hass.data[DOMAIN]: the entry's data, the open sessions, the services

vars == <<data, coord, lock, phase, setupPc, poll, actor, dev, ent, budget, cyc, ret, act, life>>

\* the device as first seen
InitDevice ==
  [power |-> POWER_STATE_ACTIVE,
   led |-> [ledIntensity |-> 50, rj45Leds |-> "true", hideClip |-> "false"],
   profile |-> [list |-> {1, 2}, selected |-> 1, startup |-> 0]]

IdlePoll == [ep |-> "none", volume |-> 0, power |-> EmptyPower, inputs |-> 0, events |-> 0]
IdleActor == [kind |-> "none", arg |-> 0, startup |-> FALSE]

\* cyc: the keys requested, in order; the keys fetched and their values; the
\* keys whose request failed; how the cycle ended and on which response; the
\* cache when the cycle started; the keys that failed in earlier cycles; the
\* keys requested in earlier cycles; the number of actions finished before
NewCycle(d, prev, asked) ==
  [log |-> <<>>, fetched |-> {}, vals |-> EmptyPayload, failed |-> {},
   result |-> "running", cause |-> "none", start |-> d, prev |-> prev,
   asked |-> asked, acts |-> act.n]

\* ------------------------------------------------------ the request lock
\* a faulty variant of LockAvailable: the lock is never waited for
LockAvailableIgnored(lk) == TRUE

\* asyncio.Lock.acquire takes the lock at once when it is free and nobody waits
LockAvailable(lk) == lk.holder = NoOne /\ lk.waiters = <<>>

\* _request up to the first suspension: "async with self._lock" and
\* session.request; the request is sent when the lock is taken, else the task
\* queues on the lock.  Gives the new <<lock, phase>>.
Issue(lk, ph, p) ==
  IF LockAvailable(lk)
    THEN <<[lk EXCEPT !.holder = p], [ph EXCEPT ![p] = "flight"]>>
    ELSE <<[lk EXCEPT !.waiters = Append(@, p)], [ph EXCEPT ![p] = "wait"]>>

\* leaving "async with self._lock" (return or raise): the lock is released and
\* the first waiter, if any, takes it and sends its request
Release(lk, ph, p) ==
  IF lk.waiters = <<>>
    THEN <<[lk EXCEPT !.holder = NoOne], [ph EXCEPT ![p] = "none"]>>
    ELSE <<[holder |-> Head(lk.waiters), waiters |-> Tail(lk.waiters)],
           [ph EXCEPT ![p] = "none", ![Head(lk.waiters)] = "flight"]>>

InFlight == {p \in Procs : phase[p] = "flight"}

\* ------------------------------------------------------------- the device
Outcomes == {"ok", "empty", "e503", "error"}
Failed(o) == o \in {"e503", "error"}

\* the body of a 200 response to GET key; "empty" is a 200 with an empty body,
\* which _request turns into {}
Body(k, o, d, dv) ==
  IF o = "empty" THEN EmptyPayload[k]
  ELSE CASE k = "power" -> [state |-> dv.power, other |-> 1]
         [] k = "led" -> dv.led
         [] k = "profile_list" -> dv.profile
         [] OTHER -> d.poll_tick + 1

\* a response to setup or to the poll cycle other than a plain 200 with a
\* body is an environment event
FaultOk(o) == o = "ok" \/ budget < MaxEvents
Charge(b, o) == IF o = "ok" THEN b ELSE b + 1

\* ------------------------------------------------------------ poll cycle
Idx(k) == CHOOSE i \in 1..Len(EndpointOrder) : EndpointOrder[i] = k

\* a faulty variant of Due: every key is requested in every cycle
DueAlways(k, d) == TRUE

\* a faulty variant of Due: events is requested on every second tick
DueEventsEverySecond(k, d) ==
  CASE k \in {"volume", "power", "inputs"} -> TRUE
    [] k = "events" -> d.poll_tick % 2 = 0 \/ IsEmpty(k, d.events_data)
    [] k = "led" -> ~d.led_initialized
    [] OTHER -> IsEmpty(k, d[CacheField[k]])

\* the condition guarding the request of each key
Due(k, d) ==
  CASE k \in {"volume", "power", "inputs"} -> TRUE
    [] k = "events" -> d.poll_tick % 3 = 0 \/ IsEmpty(k, d.events_data)
    [] k = "led" -> ~d.led_initialized
    [] OTHER -> IsEmpty(k, d[CacheField[k]])

\* the next key after position i whose request is due, "return" if none
NextDue(d, i) ==
  LET S == {j \in (i + 1)..Len(EndpointOrder) : Due(EndpointOrder[j], d)}
  IN  IF S = {} THEN "return"
      ELSE EndpointOrder[CHOOSE j \in S : \A j2 \in S : j <= j2]

\* lines 164-168: the four locals are stored in the cache
Commit(d, loc) ==
  [d EXCEPT !.volume_data = loc.volume, !.power_data = loc.power,
            !.inputs_data = loc.inputs, !.events_data = loc.events]

\* a faulty variant of StoreOnFetch: volume is stored before the commit too
StoreOnFetchVolumeToo(k) == k \in {"events", "volume"}

\* a faulty variant of StoreOnFetch: inputs is stored before the commit too
StoreOnFetchInputsToo(k) == k \in {"events", "inputs"}

\* keys whose value is stored in the cache as soon as it is fetched, before
\* the commit (line 160)
StoreOnFetch(k) == k = "events"

\* a faulty variant of FailAborts: any failed request ends the cycle
FailAbortsAll(k) == TRUE

\* keys whose failed request ends the cycle in the outer except branches
FailAborts(k) == k \in CoreKeys

\* a faulty variant of OnFail: a failed aoip_identity clears aoip_ipv4
OnFailWrongField(k, d) ==
  CASE k \in {"device_info", "device_id"} -> d
    [] k = "led" -> [d EXCEPT !.led_initialized = TRUE]
    [] k = "aoip_identity" -> [d EXCEPT !.aoip_ipv4 = 0]
    [] OTHER -> [d EXCEPT ![CacheField[k]] = EmptyPayload[k]]

\* a faulty variant of OnFail: a failed LED request is not marked as checked
OnFailLedRetry(k, d) ==
  CASE k \in {"device_info", "device_id", "led"} -> d
    [] OTHER -> [d EXCEPT ![CacheField[k]] = EmptyPayload[k]]

\* what a failed request of a key outside CoreKeys leaves in the cache
OnFail(k, d) ==
  CASE k \in {"device_info", "device_id"} -> d
    [] k = "led" -> [d EXCEPT !.led_initialized = TRUE]
    [] OTHER -> [d EXCEPT ![CacheField[k]] = EmptyPayload[k]]

\* what a successful request stores
OnOk(k, d, v) ==
  CASE k \in CoreKeys -> IF StoreOnFetch(k) THEN [d EXCEPT ![CacheField[k]] = v] ELSE d
    [] k = "led" -> [d EXCEPT !.led_data = v, !.led_initialized = TRUE]
    [] OTHER -> [d EXCEPT ![CacheField[k]] = v]

\* async_update_data from the completion of the request of key k to its next
\* suspension: the new cache, the new locals and the next key ("return" when
\* the cycle returns its payload, "abort" when it takes an except branch)
PollStep(d, loc, k, o, v) ==
  IF Failed(o)
    THEN IF FailAborts(k)
           THEN [d |-> d, loc |-> loc, next |-> "abort"]
           ELSE LET d1 == OnFail(k, d)
                IN  [d |-> d1, loc |-> loc, next |-> NextDue(d1, Idx(k))]
    ELSE LET d1 == OnOk(k, d, v)
             loc1 == IF k \in CoreKeys THEN [loc EXCEPT ![k] = v] ELSE loc
             n == NextDue(d1, Idx(k))
         IN  IF k \in CoreKeys /\ n \notin CoreKeys
               \* lines 158-168 are passed: events was fetched, or is skipped
               \* and read from the cache; the four locals are stored
               THEN LET loc2 == IF k = "events" THEN loc1
                                ELSE [loc1 EXCEPT !.events = d1.events_data]
                        d2 == Commit(d1, loc2)
                    IN  [d |-> d2, loc |-> loc2, next |-> NextDue(d2, Idx("events"))]
               ELSE [d |-> d1, loc |-> loc1, next |-> n]


\* --------------------------------------------------------------- entities
\* GenelecPowerStateSelect._handle_coordinator_update / _init_from_coordinator_data
PowerOption(payload) ==
  LET state == IF payload.power.state = "ABSENT" THEN POWER_STATE_ACTIVE
               ELSE payload.power.state
  IN  TableGet(POWER_STATE_API_TO_OPTION, state)

\* _build_profile_options: the profile ids that have an option
ProfileOptions(p) ==
  {0} \cup {i \in p.list : 0 <= i /\ i <= 5}
      \cup {i \in {p.selected, p.startup} : 0 <= i /\ i <= 5}

\* GenelecProfileSelect._update_from_profile_data: the id of the current option
ProfileCurrent(p) ==
  LET opts == ProfileOptions(p)
  IN  IF p.selected \in opts THEN p.selected
      ELSE CHOOSE i \in opts : \A j \in opts : i <= j

\* GenelecRJ45LedsSwitch._handle_coordinator_update
Rj45Enabled(led, old) ==
  IF led = EmptyLed THEN old
  ELSE IF led.rj45Leds = "absent" THEN TRUE ELSE led.rj45Leds = "true"

\* GenelecClipLedSwitch._handle_coordinator_update
ClipEnabled(led, old) ==
  IF led = EmptyLed THEN old
  ELSE IF led.hideClip = "absent" THEN FALSE ELSE led.hideClip = "false"

\* the entities as their constructors leave them before coordinator data is read
NewEntities ==
  [up |-> FALSE, power_option |-> "active", profile_options |-> {0},
   profile_current |-> 0, rj45_enabled |-> TRUE, clip_enabled |-> FALSE,
   mp_power |-> POWER_STATE_ACTIVE]

\* GenelecSmartIPMediaPlayer._init_from_coordinator_data: _power_state
MediaPlayerInit(payload, old) ==
  IF payload.power = EmptyPower THEN old
  ELSE IF payload.power.state = "ABSENT" THEN POWER_STATE_ACTIVE ELSE payload.power.state

\* GenelecSmartIPMediaPlayer.async_update with a coordinator: _power_state
MediaPlayerPower(payload) ==
  IF payload.power.state = "ABSENT" THEN POWER_STATE_STANDBY ELSE payload.power.state

\* the coordinator calls every entity's _handle_coordinator_update
Listeners(e, payload) ==
  IF ~e.up THEN e
  ELSE [up |-> TRUE,
        power_option |-> PowerOption(payload),
        profile_options |-> ProfileOptions(payload.profile_list),
        profile_current |-> ProfileCurrent(payload.profile_list),
        rj45_enabled |-> Rj45Enabled(payload.led, e.rj45_enabled),
        clip_enabled |-> ClipEnabled(payload.led, e.clip_enabled),
        mp_power |-> e.mp_power]

\* ---------------------------------------------------------------- patches
\* _push_power_patch
PatchPower(payload, state) == [payload EXCEPT !.power = [@ EXCEPT !.state = state]]

\* a faulty variant of PatchLed: the led dict is replaced by the patch
PatchLedReplace(payload, key, v) == [payload EXCEPT !.led = [EmptyLed EXCEPT ![key] = v]]

\* _push_led_patch and the patch of handle_set_led_intensity
PatchLed(payload, key, v) == [payload EXCEPT !.led = [@ EXCEPT ![key] = v]]

\* _push_profile_patch (startup = FALSE) and the patch of handle_restore_profile
PatchProfile(payload, id, startup) ==
  [payload EXCEPT !.profile_list =
     [@ EXCEPT !.selected = id, !.startup = IF startup THEN id ELSE @]]

\* Python bool as stored in the led dict
BoolStr(b) == IF b THEN "true" ELSE "false"

\* handle_set_led_intensity: max(0, min(100, int(intensity)))
Clamp(i) == IF i < 0 THEN 0 ELSE IF i > 100 THEN 100 ELSE i


\* ------------------------------------------------------------------- Init
\* act before any action has finished: its number, kind, commanded value and
\* result; whether it patched the payload; the tick of the poll cycle it
\* finished in, and whether that cycle was running and had read power
NoAction ==
  [n |-> 0, kind |-> "none", value |-> 0, startup |-> FALSE, result |-> "none",
   patched |-> FALSE, tick |-> 0, mid |-> FALSE]

\* the state of async_setup_entry after line 131: session, data, lock and
\* device exist, nothing has been requested yet.  The services are registered
\* already when another entry of the domain was set up before.
Init ==
  /\ data = NewData
  /\ coord = [has |-> FALSE, data |-> EmptyPayload]
  /\ lock = [holder |-> NoOne, waiters |-> <<>>]
  /\ phase = [p \in Procs |-> "none"]
  /\ setupPc = "start"
  /\ poll = IdlePoll
  /\ actor = IdleActor
  /\ dev = InitDevice
  /\ ent = NewEntities
  /\ budget = 0
  /\ act = NoAction
  /\ cyc = [NewCycle(NewData, {}, {}) EXCEPT !.result = "none"]
  /\ ret = EmptyPayload
  /\ \E registered \in BOOLEAN :
       life = [entry |-> 1, sessions |-> {1}, created |-> 1,
               services_registered |-> registered]

\* ------------------------------------------------------------------ setup
\* async_setup_entry lines 133-135: device.get_device_id() is called
SetupGetDeviceId ==
  /\ setupPc = "start"
  /\ setupPc' = "device_id"
  /\ LET is == Issue(lock, phase, "setup")
     IN  lock' = is[1] /\ phase' = is[2]
  /\ UNCHANGED <<data, coord, poll, actor, dev, ent, budget, cyc, ret, act, life>>

\* the response to get_device_id (lines 135-139); get_device_info is called
SetupDeviceIdResponse ==
  /\ setupPc = "device_id" /\ phase["setup"] = "flight"
  /\ \E o \in Outcomes :
       /\ FaultOk(o)
       /\ budget' = Charge(budget, o)
       /\ data' = IF Failed(o) THEN data
                  ELSE [data EXCEPT !.device_id = Body("device_id", o, data, dev)]
  /\ setupPc' = "device_info"
  /\ LET rel == Release(lock, phase, "setup")
         is == Issue(rel[1], rel[2], "setup")
     IN  lock' = is[1] /\ phase' = is[2]
  /\ UNCHANGED <<coord, poll, actor, dev, ent, cyc, ret, act, life>>

\* the response to get_device_info (lines 143-147); the coordinator is created
\* and async_config_entry_first_refresh starts the first poll cycle
SetupDeviceInfoResponse ==
  /\ setupPc = "device_info" /\ phase["setup"] = "flight"
  /\ \E o \in Outcomes :
       /\ FaultOk(o)
       /\ budget' = Charge(budget, o)
       /\ LET d1 == IF Failed(o) THEN data
                    ELSE [data EXCEPT !.device_info = Body("device_info", o, data, dev)]
              d2 == [d1 EXCEPT !.poll_tick = @ + 1]
          IN  /\ data' = d2
              /\ cyc' = [NewCycle(d1, {}, {}) EXCEPT !.log = <<EndpointOrder[1]>>]
  /\ setupPc' = "refresh"
  /\ poll' = [IdlePoll EXCEPT !.ep = EndpointOrder[1]]
  /\ LET rel == Release(lock, phase, "setup")
         is == Issue(rel[1], rel[2], "poll")
     IN  lock' = is[1] /\ phase' = is[2]
  /\ UNCHANGED <<coord, actor, dev, ent, ret, act, life>>

\* async_forward_entry_setups: the platforms create the entities, which read
\* the coordinator payload in their constructors
SetupPlatforms ==
  /\ setupPc = "platforms"
  /\ setupPc' = "done"
  /\ ent' = Listeners([NewEntities EXCEPT !.up = TRUE,
                                          !.mp_power = MediaPlayerInit(coord.data, @)],
                      coord.data)
  /\ UNCHANGED <<data, coord, lock, phase, poll, actor, dev, budget, cyc, ret, act, life>>

\* ------------------------------------------------------------- poll cycle
\* the coordinator's timer calls async_update_data: line 153 and get_volume
TimerPoll ==
  /\ setupPc = "done" /\ poll.ep = "none"
  /\ data.poll_tick < MaxTick
  /\ data' = [data EXCEPT !.poll_tick = @ + 1]
  /\ cyc' = [NewCycle(data, cyc.prev \cup cyc.failed, cyc.asked \cup SeqToSet(cyc.log))
                EXCEPT !.log = <<EndpointOrder[1]>>]
  /\ poll' = [IdlePoll EXCEPT !.ep = EndpointOrder[1]]
  /\ LET is == Issue(lock, phase, "poll")
     IN  lock' = is[1] /\ phase' = is[2]
  /\ UNCHANGED <<coord, setupPc, actor, dev, ent, budget, ret, act, life>>

\* the response to the cycle's request in flight: async_update_data runs to
\* its next request, or to its return, where the coordinator stores the
\* payload and calls the entities; after the first refresh async_setup_entry
\* registers the services (lines 413-420)
PollResponse ==
  /\ poll.ep # "none" /\ phase["poll"] = "flight"
  /\ \E o \in Outcomes :
       /\ FaultOk(o)
       /\ budget' = Charge(budget, o)
       /\ LET k == poll.ep
              v == Body(k, o, data, dev)
              st == PollStep(data, poll, k, o, v)
              rel == Release(lock, phase, "poll")
              c1 == IF Failed(o)
                      THEN [cyc EXCEPT !.failed = @ \cup {k}]
                      ELSE [cyc EXCEPT !.fetched = @ \cup {k}, !.vals[k] = v]
          IN  /\ data' = st.d
              /\ IF st.next \in {"return", "abort"}
                   THEN LET payload == IF st.next = "abort" THEN CachedPayload(st.d)
                                       ELSE SuccessPayload(st.d, st.loc)
                        IN  /\ coord' = [has |-> TRUE, data |-> payload]
                            /\ ent' = Listeners(ent, payload)
                            /\ ret' = payload
                            /\ poll' = IdlePoll
                            /\ lock' = rel[1] /\ phase' = rel[2]
                            /\ cyc' = [c1 EXCEPT !.result = IF st.next = "abort" THEN "aborted" ELSE "returned",
                                                 !.cause = IF st.next = "abort" THEN o ELSE "none"]
                            /\ setupPc' = IF setupPc = "refresh" THEN "platforms" ELSE setupPc
                            /\ life' = IF setupPc = "refresh"
                                         THEN [life EXCEPT !.services_registered = TRUE]
                                         ELSE life
                   ELSE LET is == Issue(rel[1], rel[2], "poll")
                        IN  /\ poll' = [st.loc EXCEPT !.ep = st.next]
                            /\ lock' = is[1] /\ phase' = is[2]
                            /\ cyc' = [c1 EXCEPT !.log = Append(@, st.next)]
                            /\ UNCHANGED <<coord, ent, ret, setupPc, life>>
  /\ UNCHANGED <<actor, dev, act>>


\* ---------------------------------------------------------------- actions
PowerSelectInputs == {p[2] : p \in POWER_STATE_API_TO_OPTION} \cup {"bogus"}
ProfileSelectInputs == {0, 2, 4}
IntensityInputs == {-5, 30, 150}
RestoreProfileInputs == {-1, 3, 6}

CanAct == actor.kind = "none" /\ budget < MaxEvents

\* a handler that returns before any request
Reject(kind) ==
  /\ budget' = budget + 1
  /\ act' = [NoAction EXCEPT !.n = act.n + 1, !.kind = kind, !.result = "rejected",
                            !.tick = data.poll_tick]
  /\ UNCHANGED <<data, coord, lock, phase, setupPc, poll, actor, dev, ent, cyc, ret, life>>

\* a handler that calls the device: _request is entered
Start(kind, arg, startup) ==
  /\ budget' = budget + 1
  /\ actor' = [kind |-> kind, arg |-> arg, startup |-> startup]
  /\ LET is == Issue(lock, phase, "actor")
     IN  lock' = is[1] /\ phase' = is[2]
  /\ UNCHANGED <<data, coord, setupPc, poll, dev, ent, cyc, ret, act, life>>

\* GenelecPowerStateSelect.async_select_option up to set_power_state
PowerSelect ==
  /\ ent.up /\ CanAct
  /\ \E option \in PowerSelectInputs :
       LET api_state == TableGet(POWER_STATE_OPTION_TO_API, option)
       IN  IF api_state = "None" \/ api_state \notin SETTABLE_POWER_STATES
             THEN Reject("power_select")
             ELSE Start("power_select", option, FALSE)

\* GenelecProfileSelect.async_select_option up to restore_profile
ProfileSelect ==
  /\ ent.up /\ CanAct
  /\ \E id \in ProfileSelectInputs :
       IF id \notin ent.profile_options
         THEN Reject("profile_select")
         ELSE Start("profile_select", id, FALSE)

\* GenelecRJ45LedsSwitch.async_turn_on / async_turn_off up to set_led_settings
Rj45Switch ==
  /\ ent.up /\ CanAct
  /\ \E on \in BOOLEAN : Start("rj45", on, FALSE)

\* GenelecClipLedSwitch.async_turn_on / async_turn_off up to set_led_settings
ClipSwitch ==
  /\ ent.up /\ CanAct
  /\ \E on \in BOOLEAN : Start("clip", on, FALSE)

\* GenelecSmartIPMediaPlayer.async_turn_on / async_turn_off up to wake_up /
\* set_standby, which call set_power_state
MediaPlayerTurn ==
  /\ ent.up /\ CanAct
  /\ \E state \in {POWER_STATE_ACTIVE, POWER_STATE_STANDBY} :
       Start("media_player", state, FALSE)

\* Home Assistant polls the media player, which is no coordinator listener:
\* async_update copies the power state of the coordinator payload
MediaPlayerUpdate ==
  /\ ent.up /\ coord.has
  /\ ent.mp_power # MediaPlayerPower(coord.data)
  /\ ent' = [ent EXCEPT !.mp_power = MediaPlayerPower(coord.data)]
  /\ UNCHANGED <<data, coord, lock, phase, setupPc, poll, actor, dev, budget, cyc, ret, act, life>>

\* handle_set_led_intensity up to set_led_settings; the services are
\* registered for the whole domain, so a call can arrive during setup
SetLedIntensity ==
  /\ life.services_registered /\ CanAct
  /\ \E given \in BOOLEAN, intensity \in IntensityInputs :
       IF ~given THEN Reject("set_led_intensity")
       ELSE Start("set_led_intensity", Clamp(intensity), FALSE)

\* handle_restore_profile up to restore_profile
RestoreProfile ==
  /\ life.services_registered /\ CanAct
  /\ \E given \in BOOLEAN, profile_id \in RestoreProfileInputs, startup \in BOOLEAN :
       IF ~given \/ profile_id < 0 \/ profile_id > 5
         THEN Reject("restore_profile")
         ELSE Start("restore_profile", profile_id, startup)

\* the value the running action sends to the device
Commanded(a) ==
  CASE a.kind = "power_select" -> TableGet(POWER_STATE_OPTION_TO_API, a.arg)
    [] a.kind = "rj45" -> BoolStr(a.arg)
    [] a.kind = "clip" -> BoolStr(~a.arg)
    [] OTHER -> a.arg

\* the device after the PUT of the running action
DeviceAfter(dv, a) ==
  CASE a.kind = "power_select" -> [dv EXCEPT !.power = Commanded(a)]
    [] a.kind = "rj45" -> [dv EXCEPT !.led.rj45Leds = Commanded(a)]
    [] a.kind = "clip" -> [dv EXCEPT !.led.hideClip = Commanded(a)]
    [] a.kind = "set_led_intensity" -> [dv EXCEPT !.led.ledIntensity = Commanded(a)]
    [] a.kind = "media_player" -> [dv EXCEPT !.power = Commanded(a)]
    [] OTHER -> [dv EXCEPT !.profile.selected = a.arg,
                           !.profile.startup = IF a.startup THEN a.arg ELSE @]

\* the entity's own attribute, set after the request returned
EntityAfter(e, a) ==
  CASE a.kind = "power_select" -> [e EXCEPT !.power_option = a.arg]
    [] a.kind = "profile_select" -> [e EXCEPT !.profile_current = a.arg]
    [] a.kind = "rj45" -> [e EXCEPT !.rj45_enabled = a.arg]
    [] a.kind = "clip" -> [e EXCEPT !.clip_enabled = a.arg]
    [] a.kind = "media_player" -> [e EXCEPT !.mp_power = a.arg]
    [] OTHER -> e

\* the patched copy of the payload
Patched(payload, a) ==
  CASE a.kind = "power_select" -> PatchPower(payload, Commanded(a))
    [] a.kind = "rj45" -> PatchLed(payload, "rj45Leds", Commanded(a))
    [] a.kind = "clip" -> PatchLed(payload, "hideClip", Commanded(a))
    [] a.kind = "set_led_intensity" -> PatchLed(payload, "ledIntensity", Commanded(a))
    [] OTHER -> PatchProfile(payload, a.arg, a.startup)

\* the guard of every patch: "coordinator and coordinator.data"
HasPayload(c) == c.has

\* the media player pushes no patch: it requests a refresh, that is a poll
\* cycle, which TimerPoll starts
Patches(kind) == kind # "media_player"

\* a faulty variant of Applied: the handler goes on after a failed request
AppliedAlways(o) == TRUE

\* the statements after "await self._device..." run when the request returned
Applied(o) == ~Failed(o)

\* the response to the action's PUT: on success the entity sets its attribute
\* and pushes the patch through async_set_updated_data, which calls the
\* entities; on failure the exception leaves the handler
ActionResponse ==
  /\ actor.kind # "none" /\ phase["actor"] = "flight"
  /\ \E o \in Outcomes :
       /\ act' = [n |-> act.n + 1, kind |-> actor.kind, value |-> Commanded(actor),
                  startup |-> actor.startup,
                  result |-> IF Failed(o) THEN "failed" ELSE "ok",
                  patched |-> Applied(o) /\ Patches(actor.kind) /\ HasPayload(coord),
                  tick |-> data.poll_tick,
                  mid |-> cyc.result = "running" /\ "power" \in cyc.fetched]
       /\ dev' = IF Failed(o) THEN dev ELSE DeviceAfter(dev, actor)
       /\ IF Applied(o)
            THEN IF Patches(actor.kind) /\ HasPayload(coord)
                   THEN LET updated == Patched(coord.data, actor)
                        IN  /\ coord' = [has |-> TRUE, data |-> updated]
                            /\ ent' = Listeners(EntityAfter(ent, actor), updated)
                   ELSE /\ ent' = EntityAfter(ent, actor)
                        /\ UNCHANGED coord
            ELSE UNCHANGED <<ent, coord>>
  /\ actor' = IdleActor
  /\ LET rel == Release(lock, phase, "actor")
     IN  lock' = rel[1] /\ phase' = rel[2]
  /\ UNCHANGED <<data, setupPc, poll, budget, cyc, ret, life>>

\* the device changes its power state on its own: it falls asleep, loses
\* power, wakes up, or enters a state this integration has no name for
DeviceChange ==
  /\ budget < MaxEvents
  /\ \E s \in DeviceOwnStates \ {dev.power} : dev' = [dev EXCEPT !.power = s]
  /\ budget' = budget + 1
  /\ UNCHANGED <<data, coord, lock, phase, setupPc, poll, actor, ent, cyc, ret, act, life>>

Next ==
  \/ SetupGetDeviceId
  \/ SetupDeviceIdResponse
  \/ SetupDeviceInfoResponse
  \/ SetupPlatforms
  \/ TimerPoll
  \/ PollResponse
  \/ PowerSelect
  \/ ProfileSelect
  \/ Rj45Switch
  \/ ClipSwitch
  \/ SetLedIntensity
  \/ RestoreProfile
  \/ ActionResponse
  \/ MediaPlayerTurn
  \/ MediaPlayerUpdate
  \/ DeviceChange

Spec == Init /\ [][Next]_vars

\* the request of the poll cycle is in flight: PollResponse is enabled
PollInFlight == poll.ep # "none" /\ phase["poll"] = "flight"

\* the coordinator's timer fires every update_interval (line 293) and the
\* device answers every request of the poll cycle.  The second conjunct is
\* WF_vars(PollResponse) with ENABLED <<PollResponse>>_vars written out as
\* PollInFlight.
SpecLive ==
  /\ Spec
  /\ WF_vars(TimerPoll)
  /\ ([]<>(~PollInFlight) \/ []<><<PollResponse>>_vars)


\* -------------------------------------------------------------- lifecycle
\* async_setup_entry lines 106-131 on hass.data: a new session is opened and
\* the new data, which holds it, replaces whatever hass.data held for the entry
SetupEffect(l) ==
  [l EXCEPT !.entry = l.created + 1, !.sessions = @ \cup {l.created + 1},
            !.created = @ + 1]

\* async_unload_entry lines 432-448 on hass.data: only when the platforms
\* unloaded is the data popped, its session closed and, when no other entry
\* remains, the services removed
UnloadEffect(l, unload_ok, remaining) ==
  IF unload_ok
    THEN [l EXCEPT !.entry = 0, !.sessions = @ \ {l.entry},
                   !.services_registered = IF remaining THEN @ ELSE FALSE]
    ELSE l

\* the tasks of the entry are at rest: Home Assistant serialises setup, unload
\* and reload of one entry, and the model unloads between poll cycles
Quiet == poll.ep = "none" /\ actor.kind = "none"

\* the variables of a fresh async_setup_entry, as in Init
FreshSetup ==
  /\ data' = NewData
  /\ coord' = [has |-> FALSE, data |-> EmptyPayload]
  /\ lock' = [holder |-> NoOne, waiters |-> <<>>]
  /\ phase' = [p \in Procs |-> "none"]
  /\ setupPc' = "start"
  /\ poll' = IdlePoll
  /\ actor' = IdleActor
  /\ ent' = NewEntities
  /\ cyc' = [NewCycle(NewData, {}, {}) EXCEPT !.result = "none"]
  /\ ret' = EmptyPayload
  /\ UNCHANGED <<dev, budget, act>>

\* Home Assistant sets the entry up again after an unload
SetupEntry ==
  /\ setupPc = "unloaded"
  /\ life.created < MaxLoads
  /\ life' = SetupEffect(life)
  /\ FreshSetup

\* async_unload_entry; unload_ok is the result of async_unload_platforms and
\* remaining says whether other entries of the domain stay in hass.data.  The
\* function returns True either way, so the entry counts as unloaded.
UnloadEntry ==
  /\ setupPc = "done" /\ Quiet
  /\ \E unload_ok \in BOOLEAN, remaining \in BOOLEAN :
       /\ life' = UnloadEffect(life, unload_ok, remaining)
       /\ ent' = IF unload_ok THEN [ent EXCEPT !.up = FALSE] ELSE ent
  /\ setupPc' = "unloaded"
  /\ UNCHANGED <<data, coord, lock, phase, poll, actor, dev, budget, cyc, ret, act>>

\* async_reload_entry: async_unload_entry, then async_setup_entry
ReloadEntry ==
  /\ setupPc = "done" /\ Quiet
  /\ life.created < MaxLoads
  /\ \E unload_ok \in BOOLEAN, remaining \in BOOLEAN :
       life' = SetupEffect(UnloadEffect(life, unload_ok, remaining))
  /\ FreshSetup

NextLifecycle ==
  \/ SetupGetDeviceId
  \/ SetupDeviceIdResponse
  \/ SetupDeviceInfoResponse
  \/ PollResponse
  \/ SetupPlatforms
  \/ SetupEntry
  \/ UnloadEntry
  \/ ReloadEntry

SpecLifecycle == Init /\ [][NextLifecycle]_vars


\* ----------------------------------------------------------------- claims
Cache == CachedPayload(data)
CycleOver == cyc.result \in {"returned", "aborted"}

\* C1: while an entry is loaded at most one request to the device is in
\* flight, and the task whose request is in flight holds the entry's lock
\* (setup, the poll cycle and every action go through _request).
C1_OneRequestInFlight ==
  /\ Cardinality(InFlight) <= 1
  /\ \A p \in InFlight : lock.holder = p
  /\ \A p \in Procs : phase[p] = "wait" => lock.holder \notin {NoOne, p}

\* an action waits on the lock while the poll cycle's request is in flight
C1_Witness ==
  /\ phase["poll"] = "flight" /\ phase["actor"] = "wait"
  /\ lock.holder = "poll" /\ lock.waiters = <<"actor">>

\* the order of the requests as the claim C2 lists it
C2_Position ==
  [volume |-> 1, power |-> 2, inputs |-> 3, events |-> 4, device_info |-> 5,
   device_id |-> 6, led |-> 7, network_ipv4 |-> 8, aoip_ipv4 |-> 9,
   aoip_identity |-> 10, zone_info |-> 11, profile_list |-> 12]

\* C2: the requests of one poll cycle are issued in the fixed order volume,
\* power, inputs, events, device info, device id, LED, network config, AoIP
\* IPv4, AoIP identity, zone info, profile list (skipping is allowed,
\* reordering is not), and every request but the last one issued has
\* completed.
C2_FixedOrder ==
  /\ \A i, j \in 1..Len(cyc.log) :
       i < j => C2_Position[cyc.log[i]] < C2_Position[cyc.log[j]]
  /\ \A i \in 1..Len(cyc.log) :
       i < Len(cyc.log) => cyc.log[i] \in cyc.fetched \cup cyc.failed
  /\ cyc.result = "running" =>
       /\ Len(cyc.log) = Cardinality(cyc.fetched \cup cyc.failed) + 1
       /\ poll.ep = cyc.log[Len(cyc.log)]

\* a finished cycle that skipped events, device info, device id and LED, then
\* requested the network config, and skipped the rest
C2_Witness ==
  /\ cyc.result = "returned"
  /\ cyc.log = <<"volume", "power", "inputs", "network_ipv4">>
  /\ cyc.fetched = SeqToSet(cyc.log)

\* C3 as stated: whichever request of a cycle fails, every value the cycle
\* fetched from another endpoint is in the cache and in the returned payload.
C3_AnyFailureKeepsOthers ==
  (CycleOver /\ cyc.failed # {}) =>
     \A k \in cyc.fetched : Cache[k] = cyc.vals[k] /\ ret[k] = cyc.vals[k]

\* C3 amended: when the requests that failed in a cycle are all among device
\* info, device id, LED settings, network config, AoIP IPv4, AoIP identity,
\* zone info and profile list, every value the cycle fetched from another
\* endpoint is in the cache and in the returned payload.
C3_OptionalFailureKeepsOthers ==
  (CycleOver /\ cyc.failed # {} /\ cyc.failed \cap CoreKeys = {}) =>
     \A k \in cyc.fetched : Cache[k] = cyc.vals[k] /\ ret[k] = cyc.vals[k]

\* the LED request failed in a cycle that fetched new core values and, after
\* the failure, the profile list
C3_Witness ==
  /\ CycleOver /\ cyc.failed = {"led"}
  /\ {"volume", "power", "inputs", "profile_list"} \subseteq cyc.fetched
  /\ data.volume_data = cyc.vals.volume /\ data.volume_data # 0
  /\ ret.profile_list = cyc.vals.profile_list /\ ret.profile_list # EmptyProfile

\* C4: a cycle that ends in an except branch returns a payload with the 12
\* keys whose values are the cached values, and leaves the cached volume,
\* power, inputs and events as they were when the cycle started.
C4_FailedCycleReturnsCache ==
  cyc.result = "aborted" =>
     /\ DOMAIN ret = Keys /\ Cardinality(DOMAIN ret) = 12
     /\ ret = Cache
     /\ \A k \in CoreKeys : Cache[k] = CachedPayload(cyc.start)[k]

\* a cycle that fetched a new volume and then failed with HTTP 503, in an
\* entry whose cache held values of an earlier cycle
C4_Witness ==
  /\ cyc.result = "aborted" /\ cyc.cause = "e503"
  /\ "volume" \in cyc.fetched /\ cyc.vals.volume # data.volume_data
  /\ data.volume_data # 0 /\ ret.volume = data.volume_data

C6_Key(kind) ==
  CASE kind = "power_select" -> "power"
    [] kind \in {"rj45", "clip", "set_led_intensity"} -> "led"
    [] OTHER -> "profile_list"

\* C6: when the request of a select, switch or service action (the actions
\* that patch the payload) succeeded and the coordinator held a payload,
\* the new payload holds the commanded value in the patched field (for
\* restore_profile with startup also in startup), and every other key of the
\* payload and every other field of the patched dict is as before.
C6_PatchFrame ==
  [][(act'.n # act.n /\ act'.result = "ok" /\ coord.has
       /\ act'.kind # "media_player") =>
       LET a == act'
           old == coord.data
           new == coord'.data
       IN  /\ coord'.has
           /\ \A k \in Keys \ {C6_Key(a.kind)} : new[k] = old[k]
           /\ CASE a.kind = "power_select" ->
                     /\ new.power.state = a.value
                     /\ a.value \in SETTABLE_POWER_STATES
                     /\ new.power.other = old.power.other
                [] a.kind = "rj45" ->
                     /\ new.led.rj45Leds = a.value
                     /\ new.led.ledIntensity = old.led.ledIntensity
                     /\ new.led.hideClip = old.led.hideClip
                [] a.kind = "clip" ->
                     /\ new.led.hideClip = a.value
                     /\ new.led.ledIntensity = old.led.ledIntensity
                     /\ new.led.rj45Leds = old.led.rj45Leds
                [] a.kind = "set_led_intensity" ->
                     /\ new.led.ledIntensity = a.value
                     /\ 0 <= a.value /\ a.value <= 100
                     /\ new.led.rj45Leds = old.led.rj45Leds
                     /\ new.led.hideClip = old.led.hideClip
                [] OTHER ->
                     /\ new.profile_list.selected = a.value
                     /\ new.profile_list.list = old.profile_list.list
                     /\ new.profile_list.startup =
                          IF a.startup THEN a.value ELSE old.profile_list.startup
    ]_vars

\* the profile select restored profile 2 and the payload of the last poll
\* cycle kept its list and its startup profile
C6_Witness ==
  /\ act.kind = "profile_select" /\ act.result = "ok" /\ act.value = 2
  /\ coord.has
  /\ coord.data.profile_list = [list |-> {1, 2}, selected |-> 2, startup |-> 0]
  /\ ret.profile_list.selected = 1
  /\ coord.data.volume = ret.volume /\ coord.data.led = ret.led

\* the option the claim C7 gives for a power state
C7_Option(state) ==
  CASE state = "ACTIVE" -> "active"
    [] state = "STANDBY" -> "standby"
    [] state = "BOOT" -> "boot"
    [] state = "AOIPBOOT" -> "aoipboot"
    [] state = "ISS_SLEEP" -> "iss_sleep"
    [] state = "PWR_FAIL" -> "pwr_fail"
    [] state = "ABSENT" -> "active"
    [] OTHER -> "None"

\* C7: while the power-state select exists, its current option is the one
\* the table gives for the power state of the coordinator payload: None for a
\* state outside the table, active for a payload without a power state.
C7_SelectShowsMappedOption ==
  ent.up => ent.power_option = C7_Option(coord.data.power.state)

\* a poll cycle returned a power state outside the table
C7_Witness ==
  /\ ent.up /\ cyc.result = "returned" /\ data.poll_tick > 1
  /\ coord.data.power.state = POWER_STATE_OTHER
  /\ ent.power_option = "None"

\* whether the request of a key outside CoreKeys is due in the current cycle
C8_DueAtStart(k) ==
  IF k = "led" THEN ~cyc.start.led_initialized
  ELSE IsEmpty(k, CachedPayload(cyc.start)[k])

\* C8: a cycle in which only requests for device info, device id, LED
\* settings, network config, AoIP IPv4, AoIP identity, zone info or profile
\* list failed returns normally: it requested every endpoint that was due,
\* returns the volume, power, inputs and events of this cycle, and leaves
\* each failed field at the value the cache held when the cycle started.
C8_OptionalFailureGoesOn ==
  (CycleOver /\ cyc.failed # {} /\ cyc.failed \cap CoreKeys = {}) =>
     /\ cyc.result = "returned"
     /\ \A k \in {"volume", "power", "inputs"} :
          k \in cyc.fetched /\ ret[k] = cyc.vals[k]
     /\ ret.events = IF "events" \in cyc.fetched THEN cyc.vals.events
                     ELSE cyc.start.events_data
     /\ \A k \in cyc.failed :
          /\ ret[k] = CachedPayload(cyc.start)[k]
          /\ Cache[k] = CachedPayload(cyc.start)[k]
     /\ \A k \in Keys \ CoreKeys :
          C8_DueAtStart(k) => k \in cyc.fetched \cup cyc.failed

\* the network config request failed with a server error; the cycle went on
\* to the profile list and returned this cycle's volume
C8_Witness ==
  /\ cyc.result = "returned" /\ cyc.failed = {"network_ipv4"}
  /\ "profile_list" \in cyc.fetched
  /\ ret.network_ipv4 = 0
  /\ ret.volume = data.poll_tick + 1

\* C9 as stated: the entry never has more than one open session.
C9_OneOpenSession == Cardinality(life.sessions) <= 1

\* C10 as stated: an optional endpoint whose request failed in an earlier
\* poll cycle of this entry is not requested by a later cycle.
C10_NoRetryAfterFailure ==
  \A k \in OptionalKeys \cap cyc.prev : k \notin SeqToSet(cyc.log)

\* the payload field an action commands, as the payload p carries it
PatchedField(p, a) ==
  CASE a.kind = "power_select" -> p.power.state
    [] a.kind = "rj45" -> p.led.rj45Leds
    [] a.kind = "clip" -> p.led.hideClip
    [] a.kind = "set_led_intensity" -> p.led.ledIntensity
    [] OTHER -> p.profile_list.selected

\* C11 as stated: when the last action patched led or profile_list and a poll
\* cycle that started after it is over, with no action since, the payload of
\* that cycle carries the commanded value.
C11_PatchSurvivesPoll ==
  (/\ CycleOver /\ actor.kind = "none" /\ cyc.acts = act.n
   /\ act.result = "ok" /\ act.patched
   /\ act.kind \in {"rj45", "clip", "set_led_intensity", "profile_select", "restore_profile"})
    => PatchedField(ret, act) = act.value

\* C12 as stated: when a power-select action sent its PUT after the running
\* poll cycle had read power, and patched the payload before that cycle was
\* over, the payload still holds the commanded state once the cycle is over.
C12_PatchNotOverwritten ==
  (/\ CycleOver /\ actor.kind = "none"
   /\ act.kind = "power_select" /\ act.result = "ok" /\ act.patched
   /\ act.mid /\ act.tick = data.poll_tick)
    => coord.data.power.state = act.value

\* the cycle got volume, power and inputs; its tick; the events cache it found
C13_CoreRead == {"volume", "power", "inputs"} \subseteq cyc.fetched
C13_EventsDue == data.poll_tick % 3 = 0 \/ cyc.start.events_data = 0

C15_CoreAllOrNothing ==
  LET fresh == /\ {"volume", "power", "inputs"} \subseteq cyc.fetched
               /\ data.volume_data = cyc.vals.volume
               /\ data.power_data = cyc.vals.power
               /\ data.inputs_data = cyc.vals.inputs
               /\ data.events_data = IF "events" \in cyc.fetched THEN cyc.vals.events
                                      ELSE cyc.start.events_data
      stale == /\ data.volume_data = cyc.start.volume_data
               /\ data.power_data = cyc.start.power_data
               /\ data.inputs_data = cyc.start.inputs_data
               /\ data.events_data = cyc.start.events_data
  IN  /\ cyc.result = "returned" => fresh
      /\ cyc.result = "aborted" => stale
      /\ cyc.result = "running" => (fresh \/ stale)

\* the second cycle got a new volume and power, its inputs request failed, and
\* the cache still holds the volume and power of the first cycle
C15_Witness ==
  /\ cyc.result = "aborted" /\ data.poll_tick = 2
  /\ cyc.fetched = {"volume", "power"} /\ "inputs" \in cyc.failed
  /\ cyc.vals.volume = 3 /\ data.volume_data = 2
  /\ data.power_data = cyc.start.power_data /\ data.power_data # EmptyPower

\* nothing disturbs the entry any more: the device answers every request with
\* a body and keeps its state, no action runs or will run, and the timer has
\* a cycle to go
C16_Calm ==
  /\ setupPc = "done" /\ budget = MaxEvents
  /\ actor.kind = "none" /\ poll.ep = "none" /\ data.poll_tick < MaxTick

\* the payload holds the volume, power and inputs the device returned in the
\* last cycle
C16_Fresh ==
  /\ coord.has
  /\ coord.data.volume = cyc.vals.volume
  /\ coord.data.power = cyc.vals.power
  /\ coord.data.inputs = cyc.vals.inputs

\* C16: a poll cycle that returned, with no action finished since it started
\* and none running, leaves the volume, power and inputs it fetched in the
\* payload; and once nothing disturbs the entry, a cycle returns after which
\* these three fields are the device's values, whatever came before.
C16_PayloadFollowsDevice ==
  /\ []((cyc.result = "returned" /\ act.n = cyc.acts /\ actor.kind = "none") =>
          (C16_Fresh /\ {"volume", "power", "inputs"} \subseteq cyc.fetched))
  /\ (C16_Calm ~> (/\ cyc.result = "returned" /\ C16_Fresh
                   /\ coord.data.power.state = dev.power
                   /\ coord.data.volume = data.poll_tick + 1
                   /\ coord.data.inputs = data.poll_tick + 1))

\* after a power patch was overwritten by the device's answer of the cycle it
\* fell in, the next cycle returned the state the action commanded
C16_Witness ==
  /\ cyc.result = "returned" /\ data.poll_tick = 3 /\ budget = MaxEvents
  /\ actor.kind = "none" /\ act.n = cyc.acts
  /\ act.kind = "power_select" /\ act.result = "ok" /\ act.mid /\ act.tick = 2
  /\ coord.data.power.state = POWER_STATE_STANDBY /\ dev.power = POWER_STATE_STANDBY
  /\ cyc.start.power_data.state = POWER_STATE_ACTIVE

\* C17: when the request of an entity's action fails, the step in which the
\* exception leaves the handler changes neither the entities' own values nor
\* the coordinator payload.
C17_FailedActionChangesNothing ==
  [][(act'.n # act.n /\ act'.result = "failed") => (ent' = ent /\ coord' = coord)]_vars

\* the media player's turn-off failed: it still shows the device as active
C17_Witness ==
  /\ act.kind = "media_player" /\ act.result = "failed"
  /\ act.value = POWER_STATE_STANDBY
  /\ ent.up /\ ent.mp_power = POWER_STATE_ACTIVE
  /\ coord.has /\ coord.data.power.state = POWER_STATE_ACTIVE

\* C18: the power-state select sends only ACTIVE, STANDBY, BOOT and AOIPBOOT
\* to the device, and a selection it refuses (an unknown option, or one of a
\* read-only state) sends no request and leaves the entities, the coordinator
\* payload and the device as they were.
C18_ReadOnlyOptionsNotSent ==
  /\ [](actor.kind = "power_select" =>
         Commanded(actor) \in {POWER_STATE_ACTIVE, POWER_STATE_STANDBY,
                                POWER_STATE_BOOT, POWER_STATE_AOIPBOOT})
  /\ [][(act'.n # act.n /\ act'.kind = "power_select" /\ act'.result = "rejected") =>
          UNCHANGED <<ent, coord, dev, lock, phase, actor, data>>]_vars

\* a selection was refused during the second poll cycle: no request of the
\* select waits or is in flight and the select still shows active
C18_Witness ==
  /\ act.kind = "power_select" /\ act.result = "rejected"
  /\ actor.kind = "none" /\ phase["actor"] = "none"
  /\ cyc.result = "running" /\ data.poll_tick = 2
  /\ ent.up /\ coord.has /\ ent.power_option = "active"
  /\ coord.data.power.state = POWER_STATE_ACTIVE

====
